---------------------------- MODULE Spec2Model ----------------------------
(***************************************************************************)
(* A model of the Sudoku engine of VC-Sudoku: Cell, Board, Validator,      *)
(* Solver and PuzzleGenerator.  A board is the 9x9 grid of cells of        *)
(* Board._cells together with the flag telling whether a validator has     *)
(* been injected; a cell is the record of Cell's three private fields.     *)
(***************************************************************************)
EXTENDS Integers, Sequences, FiniteSets, TLC

BOARD_SIZE == 9
BOX_SIZE == 3

\* range(9)
Idx == 0 .. (BOARD_SIZE - 1)
\* the values a cell can hold; 0 is the empty cell
Digits == 1 .. 9
\* the (row, col) pairs, written <<row, col>>
Pos == Idx \X Idx
\* the absent (row, col) pair (Python's None)
None == <<>>

(***************************************************************************)
(* Cell                                                                    *)
(***************************************************************************)
\* Cell(value, is_given): a fresh cell is valid
Cell(value, is_given) ==
    [value |-> value, is_given |-> is_given, is_valid |-> TRUE]

\* Cell.set_value: a given cell keeps its value
cell_set_value(cell, value) ==
    IF ~cell.is_given THEN [cell EXCEPT !.value = value] ELSE cell

\* Cell.clear: a given cell keeps its value
cell_clear(cell) ==
    IF ~cell.is_given THEN [cell EXCEPT !.value = 0] ELSE cell

\* Cell.mark_invalid
mark_invalid(cell) == [cell EXCEPT !.is_valid = FALSE]

\* Cell.mark_valid
mark_valid(cell) == [cell EXCEPT !.is_valid = TRUE]

\* Cell.is_empty
is_empty(cell) == cell.value = 0

(***************************************************************************)
(* Board and Validator                                                     *)
(***************************************************************************)
\* Board(): 81 fresh cells, no validator
Board ==
    [cells |-> [r \in Idx |-> [c \in Idx |-> Cell(0, FALSE)]],
     validator |-> FALSE]

\* Board.set_validator
set_validator(b) == [b EXCEPT !.validator = TRUE]

\* Board.get_cell
get_cell(b, row, col) == b.cells[row][col]

\* as _check_row, scanning only the columns before skip_col
_check_row_left(b, row, num, skip_col) ==
    \A col \in Idx : col >= skip_col \/ get_cell(b, row, col).value # num

\* Validator._check_row: no cell of the row but skip_col holds num
_check_row(b, row, num, skip_col) ==
    \A col \in Idx : col = skip_col \/ get_cell(b, row, col).value # num

\* Validator._check_column: no cell of the column but skip_row holds num
_check_column(b, col, num, skip_row) ==
    \A row \in Idx : row = skip_row \/ get_cell(b, row, col).value # num

\* as _check_box, with the origin of the box taken as row // 3, col // 3
_check_box_unscaled(b, row, col, num) ==
    LET box_row == row \div BOX_SIZE
        box_col == col \div BOX_SIZE
    IN  \A r \in box_row .. (box_row + 2) : \A c \in box_col .. (box_col + 2) :
            (r = row /\ c = col) \/ get_cell(b, r, c).value # num

\* Validator._check_box: no cell of the 3x3 box but (row, col) holds num
_check_box(b, row, col, num) ==
    LET box_row == (row \div BOX_SIZE) * BOX_SIZE
        box_col == (col \div BOX_SIZE) * BOX_SIZE
    IN  \A r \in box_row .. (box_row + 2) : \A c \in box_col .. (box_col + 2) :
            (r = row /\ c = col) \/ get_cell(b, r, c).value # num

\* as is_valid_move, without the check of the column
is_valid_move_no_column(b, row, col, num) ==
    IF num = 0 THEN TRUE
    ELSE /\ _check_row(b, row, num, col)
         /\ _check_box(b, row, col, num)

\* Validator.is_valid_move
is_valid_move(b, row, col, num) ==
    IF num = 0 THEN TRUE
    ELSE /\ _check_row(b, row, num, col)
         /\ _check_column(b, col, num, row)
         /\ _check_box(b, row, col, num)

\* as set_cell, without the question to the validator
set_cell_unvalidated(b, row, col, value) ==
    LET cell == b.cells[row][col] IN
    IF cell.is_given THEN [ret |-> FALSE, board |-> b]
    ELSE [ret |-> TRUE,
          board |-> [b EXCEPT !.cells[row][col] =
                                  mark_valid(cell_set_value(cell, value))]]

\* as set_cell, without the test of the given flag
set_cell_no_given_check(b, row, col, value) ==
    LET cell == b.cells[row][col] IN
    IF b.validator /\ value # 0 /\ ~is_valid_move(b, row, col, value)
    THEN [ret |-> FALSE,
          board |-> [b EXCEPT !.cells[row][col] = mark_invalid(cell)]]
    ELSE [ret |-> TRUE,
          board |-> [b EXCEPT !.cells[row][col].value = value,
                              !.cells[row][col].is_valid = TRUE]]

\* Board.set_cell: the returned flag and the board after the call
set_cell(b, row, col, value) ==
    LET cell == b.cells[row][col] IN
    IF cell.is_given THEN [ret |-> FALSE, board |-> b]
    ELSE IF b.validator /\ value # 0 /\ ~is_valid_move(b, row, col, value)
    THEN [ret |-> FALSE,
          board |-> [b EXCEPT !.cells[row][col] = mark_invalid(cell)]]
    ELSE [ret |-> TRUE,
          board |-> [b EXCEPT !.cells[row][col] =
                                  mark_valid(cell_set_value(cell, value))]]

\* Board.clear_cell
clear_cell(b, row, col) ==
    [b EXCEPT !.cells[row][col] = cell_clear(b.cells[row][col])]

\* Board.is_full
is_full(b) == \A row \in Idx : \A col \in Idx : ~is_empty(b.cells[row][col])

\* as reset, every cell replaced by a new empty cell
reset_all(b) ==
    [b EXCEPT !.cells = [row \in Idx |-> [col \in Idx |-> Cell(0, FALSE)]]]

\* Board.reset: clears every cell that is not given
reset(b) ==
    [b EXCEPT !.cells = [row \in Idx |-> [col \in Idx |->
        IF ~b.cells[row][col].is_given THEN cell_clear(b.cells[row][col])
        ELSE b.cells[row][col]]]]

\* as is_board_solved, without the test that the board is full
is_board_solved_flags(b) ==
    \A row \in Idx : \A col \in Idx : get_cell(b, row, col).is_valid

\* Validator.is_board_solved: full, and no cell carries the invalid mark
is_board_solved(b) ==
    IF ~is_full(b) THEN FALSE
    ELSE \A row \in Idx : \A col \in Idx : get_cell(b, row, col).is_valid

(***************************************************************************)
(* Solver                                                                  *)
(***************************************************************************)
\* as _find_empty_cell, with the last row left out of the scan
_find_empty_cell_short(b) ==
    IF \A row \in 0 .. 7 : \A col \in Idx : ~is_empty(get_cell(b, row, col))
    THEN None
    ELSE LET row == CHOOSE r \in 0 .. 7 :
                      /\ \E c \in Idx : is_empty(get_cell(b, r, c))
                      /\ \A r2 \in 0 .. (r - 1) : \A c \in Idx :
                             ~is_empty(get_cell(b, r2, c))
             col == CHOOSE c \in Idx :
                      /\ is_empty(get_cell(b, row, c))
                      /\ \A c2 \in 0 .. (c - 1) : ~is_empty(get_cell(b, row, c2))
         IN  <<row, col>>

\* Solver._find_empty_cell: the first empty cell in row-major order
_find_empty_cell(b) ==
    IF \A row \in Idx : \A col \in Idx : ~is_empty(get_cell(b, row, col))
    THEN None
    ELSE LET row == CHOOSE r \in Idx :
                      /\ \E c \in Idx : is_empty(get_cell(b, r, c))
                      /\ \A r2 \in 0 .. (r - 1) : \A c \in Idx :
                             ~is_empty(get_cell(b, r2, c))
             col == CHOOSE c \in Idx :
                      /\ is_empty(get_cell(b, row, c))
                      /\ \A c2 \in 0 .. (c - 1) : ~is_empty(get_cell(b, row, c2))
         IN  <<row, col>>

(***************************************************************************)
(* What the rules of Sudoku say, stated on the values alone                *)
(***************************************************************************)
\* the value and the given flag of the cell at position p = <<row, col>>
ValueAt(b, p) == b.cells[p[1]][p[2]].value
GivenAt(b, p) == b.cells[p[1]][p[2]].is_given

\* the 3x3 box a row or column index lies in
BoxOf(i) == i \div 3

\* the other cells that share a row, a column or a 3x3 box with p
Peers ==
    [p \in Pos |-> {q \in Pos :
        /\ q # p
        /\ \/ q[1] = p[1]
           \/ q[2] = p[2]
           \/ BoxOf(q[1]) = BoxOf(p[1]) /\ BoxOf(q[2]) = BoxOf(p[2])}]

\* no row, column or box holds the same nonzero value twice
DupFree(b) ==
    \A p \in Pos : ValueAt(b, p) # 0 =>
        \A q \in Peers[p] : ValueAt(b, q) # ValueAt(b, p)

\* the empty cells of a board, and how many cells are filled
Empties(b) == {p \in Pos : ValueAt(b, p) = 0}
Filled(b) == Cardinality(Pos \ Empties(b))

\* the value at q once the empty cells of b are filled as f says
FilledAt(b, f, q) == IF ValueAt(b, q) = 0 THEN f[q] ELSE ValueAt(b, q)

\* the ways to fill the empty cells of a duplicate-free board with 1..9 that
\* leave it duplicate-free: a new duplicate has to involve a filled-in cell
Completions(b) ==
    {f \in [Empties(b) -> Digits] :
        \A p \in Empties(b) : \A q \in Peers[p] : FilledAt(b, f, q) # f[p]}

\* row-major order of positions
Before(p, q) == p[1] < q[1] \/ (p[1] = q[1] /\ p[2] < q[2])

\* f comes before g when the filled-in cells are read in row-major order
LexLess(f, g) ==
    \E p \in DOMAIN f :
        /\ f[p] < g[p]
        /\ \A q \in DOMAIN f : Before(q, p) => f[q] = g[q]

(***************************************************************************)
(* State.  Solver.solve is recursive and mutates the board it is given, so *)
(* it is modelled step by step: `work` is the Board object passed to       *)
(* solve, `stack` holds one frame per active invocation that is inside its *)
(* `for num in range(1, 10)` loop, and `spc` is the solver's position.     *)
(***************************************************************************)
VARIABLES
    board,          \* the caller's board (Game._board, the generator's board)
    pc,             \* position of the routine that drives the board
    work,           \* the Board object Solver.solve was called on
    entry,          \* history: `work` when the outermost solve call began
    stack,          \* frames [row, col, k] of the active solve invocations
    spc,            \* "call", "loop", "return", "done" or "idle"
    sret,           \* the value the last finished invocation returned
    calls,          \* number of outermost solve calls made so far
    count,          \* cells_to_remove of the difficulty strategy
    positions,      \* the shuffled list of positions of _remove_numbers
    pidx,           \* index into positions of the loop of _remove_numbers
    removed_count,  \* removed_count of _remove_numbers
    backup_value,   \* backup_value of _remove_numbers
    full,           \* history: the board _create_full_board returned
    last,           \* the last call made or event handled, and its result
    ops,            \* number of Board calls or game actions made so far
    state,          \* Game._state: "menu", "playing" or "won"
    selected_cell,  \* Game._selected_cell: None or <<row, col>>
    history,        \* CommandHistory._history, the last command at the end
    redo_stack,     \* CommandHistory._redo_stack, the last undone at the end
    statistics,     \* the counters of the game's StatisticsManager
    timer,          \* the fields of the game's Timer
    clock,          \* what time.time() returns
    games,          \* number of games started so far
    puzzle,         \* history: the board generate returned to _start_game
    snap,           \* history: the game as it was before the last undo
    tobs            \* history: when the timer was started, how long it has
                    \* been paused since, and when the game was won

vars == <<board, pc, work, entry, stack, spc, sret, calls, count, positions,
          pidx, removed_count, backup_value, full, last, ops, state,
          selected_cell, history, redo_stack, statistics, timer, clock, games,
          puzzle, snap, tobs>>

solverVars == <<work, entry, stack, spc, sret, calls>>
generatorVars == <<count, positions, pidx, removed_count, backup_value, full>>
apiVars == <<last, ops>>
gameVars == <<state, selected_cell, history, redo_stack, statistics, timer,
              clock, games, puzzle, snap, tobs>>

\* StatisticsManager.__init__
StatisticsManager ==
    [moves |-> 0, undos |-> 0, redos |-> 0, hints_used |-> 0,
     invalid_moves |-> 0]

\* Timer.__init__
Timer ==
    [start_time |-> 0, elapsed_time |-> 0, is_running |-> FALSE,
     is_paused |-> FALSE, pause_start |-> 0]

\* nothing observed yet
NoSnap == [stage |-> "none"]
NoTimes == [started_at |-> 0, paused |-> 0, won_at |-> 0]

(***************************************************************************)
(* Solver.solve, one step at a time                                        *)
(***************************************************************************)
\* the frame on top of the stack and the stack below it
Top == stack[Len(stack)]
Pop == SubSeq(stack, 1, Len(stack) - 1)

\* `range(9, 0, -1)`
Candidates_descending == [k \in 1 .. 9 |-> 10 - k]

\* `range(1, 9)`
Candidates_short == [k \in 1 .. 8 |-> k]

\* `range(1, 10)`: the candidates of one cell in the order they are tried
Candidates == [k \in 1 .. 9 |-> k]

\* the loop stays on the candidate it has
advance_stuck(k) == k

\* the `for` loop moves on to the next element of the range
advance(k) == k + 1

\* as backtrack, the cell left as it is
backtrack_kept(b, row, col) == b

\* `board.reset()`
backtrack_reset(b, row, col) == reset(b)

\* `board.clear_cell(row, col)` after the recursive call has failed
backtrack(b, row, col) == clear_cell(b, row, col)

\* as SolveEnter, the grid with no empty cell checked for duplicates before
\* True is returned
SolveEnter_checked ==
    /\ spc = "call"
    /\ LET empty_cell == _find_empty_cell(work) IN
       IF empty_cell = None
       THEN /\ sret' = DupFree(work)
            /\ spc' = "return"
            /\ stack' = stack
       ELSE /\ stack' = Append(stack, [row |-> empty_cell[1],
                                       col |-> empty_cell[2], k |-> 1])
            /\ spc' = "loop"
            /\ sret' = sret
    /\ UNCHANGED <<board, pc, work, entry, calls>>
    /\ UNCHANGED generatorVars
    /\ UNCHANGED apiVars
    /\ UNCHANGED gameVars

\* as SolveEnter, returning False when there is no empty cell
SolveEnter_false ==
    /\ spc = "call"
    /\ LET empty_cell == _find_empty_cell(work) IN
       IF empty_cell = None
       THEN /\ sret' = FALSE
            /\ spc' = "return"
            /\ stack' = stack
       ELSE /\ stack' = Append(stack, [row |-> empty_cell[1],
                                       col |-> empty_cell[2], k |-> 1])
            /\ spc' = "loop"
            /\ sret' = sret
    /\ UNCHANGED <<board, pc, work, entry, calls>>
    /\ UNCHANGED generatorVars
    /\ UNCHANGED apiVars
    /\ UNCHANGED gameVars

\* an invocation begins: `empty_cell = self._find_empty_cell(board)`; with no
\* empty cell it returns True, otherwise it enters the loop at the first
\* candidate
SolveEnter ==
    /\ spc = "call"
    /\ LET empty_cell == _find_empty_cell(work) IN
       IF empty_cell = None
       THEN /\ sret' = TRUE
            /\ spc' = "return"
            /\ stack' = stack
       ELSE /\ stack' = Append(stack, [row |-> empty_cell[1],
                                       col |-> empty_cell[2], k |-> 1])
            /\ spc' = "loop"
            /\ sret' = sret
    /\ UNCHANGED <<board, pc, work, entry, calls>>
    /\ UNCHANGED generatorVars
    /\ UNCHANGED apiVars
    /\ UNCHANGED gameVars

\* one iteration of `for num in range(1, 10)` in the invocation on top of the
\* stack, k being the index of the candidate: a legal candidate is placed and
\* solve is called again; an illegal one is skipped; once the range is
\* exhausted the invocation returns False
SolveLoop ==
    /\ spc = "loop"
    /\ LET f == Top IN
       IF f.k > Len(Candidates)
       THEN /\ sret' = FALSE
            /\ spc' = "return"
            /\ stack' = Pop
            /\ work' = work
       ELSE LET num == Candidates[f.k] IN
            IF is_valid_move(work, f.row, f.col, num)
            THEN /\ work' = set_cell(work, f.row, f.col, num).board
                 /\ spc' = "call"
                 /\ UNCHANGED <<stack, sret>>
            ELSE /\ stack' = [stack EXCEPT ![Len(stack)].k = advance(f.k)]
                 /\ UNCHANGED <<work, spc, sret>>
    /\ UNCHANGED <<board, pc, entry, calls>>
    /\ UNCHANGED generatorVars
    /\ UNCHANGED apiVars
    /\ UNCHANGED gameVars

\* an invocation has returned sret to the invocation that called it: True is
\* passed on (`return True`); False makes the caller clear its cell and go on
\* with the next candidate; the outermost invocation returns to the caller
\* of the solver
SolveReturn ==
    /\ spc = "return"
    /\ IF stack = <<>>
       THEN /\ spc' = "done"
            /\ UNCHANGED <<stack, work>>
       ELSE LET f == Top IN
            IF sret
            THEN /\ stack' = Pop
                 /\ UNCHANGED <<spc, work>>
            ELSE /\ work' = backtrack(work, f.row, f.col)
                 /\ stack' = [stack EXCEPT ![Len(stack)].k = advance(f.k)]
                 /\ spc' = "loop"
    /\ UNCHANGED <<board, pc, entry, sret, calls>>
    /\ UNCHANGED generatorVars
    /\ UNCHANGED apiVars
    /\ UNCHANGED gameVars

SolveStep == SolveEnter \/ SolveLoop \/ SolveReturn

(***************************************************************************)
(* Solver.solve called on bounded sets of grids                            *)
(***************************************************************************)
\* the complete grid _create_full_board builds when random.shuffle leaves
\* [1..9] in order in each of the three diagonal boxes
SeededRows ==
    << <<1, 2, 3, 5, 4, 7, 6, 9, 8>>,
       <<4, 5, 6, 2, 9, 8, 3, 1, 7>>,
       <<7, 8, 9, 3, 6, 1, 2, 4, 5>>,
       <<5, 6, 8, 1, 2, 3, 9, 7, 4>>,
       <<9, 1, 7, 4, 5, 6, 8, 3, 2>>,
       <<2, 3, 4, 7, 8, 9, 5, 6, 1>>,
       <<6, 9, 5, 8, 7, 4, 1, 2, 3>>,
       <<8, 7, 1, 9, 3, 2, 4, 5, 6>>,
       <<3, 4, 2, 6, 1, 5, 7, 8, 9>> >>

\* the example puzzle of the specification's scenario
ClassicRows ==
    << <<5, 3, 0, 0, 7, 0, 0, 0, 0>>,
       <<6, 0, 0, 1, 9, 5, 0, 0, 0>>,
       <<0, 9, 8, 0, 0, 0, 0, 6, 0>>,
       <<8, 0, 0, 0, 6, 0, 0, 0, 3>>,
       <<4, 0, 0, 8, 0, 3, 0, 0, 1>>,
       <<7, 0, 0, 0, 2, 0, 0, 0, 6>>,
       <<0, 6, 0, 0, 0, 0, 2, 8, 0>>,
       <<0, 0, 0, 4, 1, 9, 0, 0, 5>>,
       <<0, 0, 0, 0, 8, 0, 0, 7, 9>> >>

\* the puzzle with the given rows: every nonzero cell is a given
PuzzleOf(rows) ==
    [cells |-> [r \in Idx |-> [c \in Idx |->
                   Cell(rows[r + 1][c + 1], rows[r + 1][c + 1] # 0)]],
     validator |-> FALSE]

\* the seeded grid carved at the positions S
Carved(S) ==
    PuzzleOf([i \in 1 .. 9 |-> [j \in 1 .. 9 |->
                 IF <<i - 1, j - 1>> \in S THEN 0 ELSE SeededRows[i][j]]])

\* a carved grid as it is, or after the player has put one value that the
\* rules allow into one of its empty cells
Played(S) ==
    {Carved(S)} \cup
    {set_cell(Carved(S), pv[1][1], pv[1][2], pv[2]).board :
        pv \in {qv \in S \X Digits :
                   is_valid_move(Carved(S), qv[1][1], qv[1][2], qv[2])}}

\* the cells carved out of the seeded grid, and how many at a time
SolverPool == {<<0, 0>>, <<0, 3>>, <<0, 4>>, <<4, 3>>, <<4, 4>>, <<8, 8>>}
MaxBlanks == 4
\* how many times in a row solve is called on one grid
MaxCalls == 2

\* the grids carved at up to n cells of a pool, as they are or played on
Grids(pool, n) ==
    UNION {Played(S) : S \in {T \in SUBSET pool : Cardinality(T) <= n}}

SmallGrids == Grids(SolverPool, MaxBlanks)

DeepGrids == {Board, PuzzleOf(ClassicRows)}

\* the routine at position p drives board b and the solver, at position s,
\* has been given board w
StartCore(b, w, p, s) ==
    /\ board = b
    /\ work = w
    /\ entry = w
    /\ pc = p
    /\ spc = s
    /\ stack = <<>>
    /\ sret = FALSE
    /\ calls = IF s = "call" THEN 1 ELSE 0
    /\ count = 0
    /\ positions = <<>>
    /\ pidx = 0
    /\ removed_count = 0
    /\ backup_value = 0
    /\ full = Board
    /\ last = [op |-> "none"]
    /\ ops = 0

\* the state in which the routine at position p drives board b and the
\* solver, at position s, has been given board w, the Game being as
\* Game.__init__ leaves it
StartWith(b, w, p, s) ==
    /\ StartCore(b, w, p, s)
    /\ state = "menu"
    /\ selected_cell = None
    /\ history = <<>>
    /\ redo_stack = <<>>
    /\ statistics = StatisticsManager
    /\ timer = Timer
    /\ clock = 0
    /\ games = 0
    /\ puzzle = Board
    /\ snap = NoSnap
    /\ tobs = NoTimes

SolverStart(grids) == \E g \in grids : StartWith(g, g, "solve", "call")

\* solve is called again on the board the previous call left
SolveAgain ==
    /\ pc = "solve"
    /\ spc = "done"
    /\ calls < MaxCalls
    /\ calls' = calls + 1
    /\ entry' = work
    /\ spc' = "call"
    /\ UNCHANGED <<board, pc, work, stack, sret>>
    /\ UNCHANGED generatorVars
    /\ UNCHANGED apiVars
    /\ UNCHANGED gameVars

SolverInit == SolverStart(SmallGrids \cup DeepGrids)
SolverSmallInit == SolverStart(SmallGrids)

SolverNext == SolveEnter \/ SolveLoop \/ SolveReturn \/ SolveAgain

SolverSpec == SolverInit /\ [][SolverNext]_vars
SolverSmallSpec == SolverSmallInit /\ [][SolverNext]_vars
\* the interpreter runs the call to its end
SolverLiveSpec == SolverSpec /\ WF_vars(SolveStep)

(***************************************************************************)
(* Claims about Solver.solve                                               *)
(***************************************************************************)
\* the outermost solve call has returned sret
Returned == spc = "done"

\* C3: whenever solve returns true on a grid that was duplicate-free when
\* the call began (the empty grid included), the grid it leaves has no empty
\* cell and no duplicate in any row, column or box
C3_SolvedGridIsValid ==
    (Returned /\ sret /\ DupFree(entry)) =>
        (Empties(work) = {} /\ DupFree(work))

\* solve has filled the empty grid
C3_Witness ==
    /\ Returned /\ sret /\ DupFree(entry)
    /\ Empties(entry) = Pos
    /\ Empties(work) = {}

\* C4: on a duplicate-free grid solve returns true exactly when the empty
\* cells can be filled with 1..9 so that the whole grid is duplicate-free
C4_SolveIffCompletable ==
    (Returned /\ DupFree(entry)) => (sret <=> Completions(entry) # {})

\* solve has returned false on a duplicate-free grid with three empty cells
C4_Witness ==
    /\ Returned /\ ~sret /\ DupFree(entry)
    /\ Cardinality(Empties(entry)) = 3
    /\ Completions(entry) = {}

\* C5: at every moment of a solve call, each cell that was nonzero when the
\* call began holds the value and the given flag it had then
C5_FilledCellsKept ==
    \A p \in Pos : ValueAt(entry, p) # 0 =>
        /\ ValueAt(work, p) = ValueAt(entry, p)
        /\ GivenAt(work, p) = GivenAt(entry, p)

\* solve has searched and returned false on a grid that holds a value the
\* player put in, next to the givens
C5_Witness ==
    /\ Returned /\ ~sret
    /\ Empties(entry) # {}
    /\ \E p \in Pos : ValueAt(entry, p) # 0 /\ ~GivenAt(entry, p)
    /\ \E p \in Pos : ValueAt(entry, p) # 0 /\ GivenAt(entry, p)

\* C6: called on a full duplicate-free grid, solve returns true and leaves
\* every cell as it was
C6_SolveIdempotent ==
    (Returned /\ Empties(entry) = {} /\ DupFree(entry)) =>
        (sret /\ work = entry)

\* the second of two solve calls in a row has returned, the first one having
\* filled in empty cells
C6_Witness ==
    /\ Returned /\ calls = 2
    /\ Empties(entry) = {} /\ DupFree(entry)
    /\ \E p \in Pos : ~GivenAt(entry, p)

\* the values solve has put into the cells that were empty at entry
Assigned == [p \in Empties(entry) |-> ValueAt(work, p)]

\* C7: when solve returns true on a duplicate-free grid, the values in the
\* cells it filled are the completion that comes first when those cells are
\* read in row-major order; the result is thus a function of the grid
C7_FirstCompletion ==
    (Returned /\ sret /\ DupFree(entry)) =>
        /\ Assigned \in Completions(entry)
        /\ \A g \in Completions(entry) : ~LexLess(g, Assigned)

\* solve has returned on a grid with two completions, and the one it chose
\* is not the grid the cells were carved from
C7_Witness ==
    /\ Returned /\ sret /\ DupFree(entry)
    /\ Cardinality(Completions(entry)) > 1
    /\ \E p \in Empties(entry) : ValueAt(work, p) # SeededRows[p[1] + 1][p[2] + 1]

\* C8: every solve call that begins returns
C8_SolveTerminates == (spc = "call") ~> Returned

\* the search over the 51 empty cells of the example puzzle has returned
C8_Witness ==
    /\ Returned
    /\ entry = PuzzleOf(ClassicRows)

(***************************************************************************)
(* Validator.is_valid_move called on bounded sets of boards                *)
(***************************************************************************)
\* the cells carved out of the seeded grid for the calls on the Validator
\* and on the Board, and how many at a time
RulePool == {<<0, 0>>, <<0, 3>>, <<0, 4>>, <<1, 3>>, <<3, 3>>}
MaxRuleBlanks == 3

ValidatorBoards ==
    {Board, PuzzleOf(ClassicRows)} \cup Grids(RulePool, MaxRuleBlanks)

ValidatorInit == \E b \in ValidatorBoards : StartWith(b, Board, "api", "idle")

\* the one call of is_valid_move(board, row, col, num) made on a board
CheckMove(row, col, num) ==
    /\ pc = "api"
    /\ last.op = "none"
    /\ last' = [op |-> "is_valid_move", row |-> row, col |-> col,
                value |-> num, ret |-> is_valid_move(board, row, col, num)]
    /\ UNCHANGED <<board, pc, ops>>
    /\ UNCHANGED solverVars
    /\ UNCHANGED generatorVars
    /\ UNCHANGED gameVars

ValidatorNext ==
    \E row \in Idx, col \in Idx, num \in 0 .. 9 : CheckMove(row, col, num)

ValidatorSpec == ValidatorInit /\ [][ValidatorNext]_vars

\* the cells other than (row, col) in its row, in its column, in its box
RowMates(row, col) == {q \in Pos : q[1] = row /\ q[2] # col}
ColMates(row, col) == {q \in Pos : q[2] = col /\ q[1] # row}
BoxMates(row, col) ==
    {q \in Pos : /\ q # <<row, col>>
                 /\ q[1] \in ((row \div 3) * 3) .. ((row \div 3) * 3 + 2)
                 /\ q[2] \in ((col \div 3) * 3) .. ((col \div 3) * 3 + 2)}

\* some cell among qs holds num
Holds(b, qs, num) == \E q \in qs : ValueAt(b, q) = num

\* C1: is_valid_move(board, row, col, num) is true exactly when num = 0 or no
\* cell other than (row, col) in the same row, the same column or the same
\* 3x3 box holds num
C1_ValidMoveIffNoConflict ==
    last.op = "is_valid_move" =>
        (last.ret <=>
            \/ last.value = 0
            \/ /\ ~Holds(board, RowMates(last.row, last.col), last.value)
               /\ ~Holds(board, ColMates(last.row, last.col), last.value)
               /\ ~Holds(board, BoxMates(last.row, last.col), last.value))

\* a value has been rejected that only the row holds
C1_Witness ==
    /\ last.op = "is_valid_move" /\ ~last.ret
    /\ Holds(board, RowMates(last.row, last.col), last.value)
    /\ ~Holds(board, ColMates(last.row, last.col), last.value)
    /\ ~Holds(board, BoxMates(last.row, last.col), last.value)

\* a value has been rejected that only the column holds
C1_WitnessColumn ==
    /\ last.op = "is_valid_move" /\ ~last.ret
    /\ ~Holds(board, RowMates(last.row, last.col), last.value)
    /\ Holds(board, ColMates(last.row, last.col), last.value)
    /\ ~Holds(board, BoxMates(last.row, last.col), last.value)

\* a value has been rejected that only the box holds
C1_WitnessBox ==
    /\ last.op = "is_valid_move" /\ ~last.ret
    /\ ~Holds(board, RowMates(last.row, last.col), last.value)
    /\ ~Holds(board, ColMates(last.row, last.col), last.value)
    /\ Holds(board, BoxMates(last.row, last.col), last.value)

\* the value the cell holds has been accepted for it
C1_WitnessOwnValue ==
    /\ last.op = "is_valid_move" /\ last.ret
    /\ last.value # 0
    /\ ValueAt(board, <<last.row, last.col>>) = last.value

(***************************************************************************)
(* The Board of a game: set_cell, clear_cell and reset called on puzzles   *)
(* into which the validator has been injected                              *)
(***************************************************************************)
\* how many Board calls are made on one puzzle
MaxOps == 2

BoardInit ==
    \E S \in {T \in SUBSET RulePool : Cardinality(T) <= MaxRuleBlanks} :
        StartWith(set_validator(Carved(S)), Board, "api", "idle")

\* a call of board.set_cell(row, col, value)
DoSetCell(row, col, value) ==
    /\ pc = "api"
    /\ ops < MaxOps
    /\ LET r == set_cell(board, row, col, value) IN
       /\ board' = r.board
       /\ last' = [op |-> "set_cell", row |-> row, col |-> col,
                   value |-> value, ret |-> r.ret]
    /\ ops' = ops + 1
    /\ UNCHANGED pc
    /\ UNCHANGED solverVars
    /\ UNCHANGED generatorVars
    /\ UNCHANGED gameVars

\* a call of board.clear_cell(row, col)
DoClearCell(row, col) ==
    /\ pc = "api"
    /\ ops < MaxOps
    /\ board' = clear_cell(board, row, col)
    /\ last' = [op |-> "clear_cell", row |-> row, col |-> col,
                value |-> 0, ret |-> TRUE]
    /\ ops' = ops + 1
    /\ UNCHANGED pc
    /\ UNCHANGED solverVars
    /\ UNCHANGED generatorVars
    /\ UNCHANGED gameVars

\* a call of board.reset()
DoReset ==
    /\ pc = "api"
    /\ ops < MaxOps
    /\ board' = reset(board)
    /\ last' = [op |-> "reset", row |-> 0, col |-> 0, value |-> 0, ret |-> TRUE]
    /\ ops' = ops + 1
    /\ UNCHANGED pc
    /\ UNCHANGED solverVars
    /\ UNCHANGED generatorVars
    /\ UNCHANGED gameVars

BoardNext ==
    \/ \E p \in RulePool, value \in 0 .. 9 : DoSetCell(p[1], p[2], value)
    \/ \E p \in RulePool : DoClearCell(p[1], p[2])
    \/ DoReset

BoardSpec == BoardInit /\ [][BoardNext]_vars

\* C2: is_board_solved(board) is true if and only if every cell is nonzero
\* and no row, column or box holds a duplicate
C2_SolvedIffFullAndDupFree ==
    is_board_solved(board) <=> (Empties(board) = {} /\ DupFree(board))

(***************************************************************************)
(* PuzzleGenerator.generate, with Solver.solve run step by step            *)
(***************************************************************************)
EASY_CELLS_TO_REMOVE == 40
MEDIUM_CELLS_TO_REMOVE == 51
HARD_CELLS_TO_REMOVE == 56

\* `cell._value = value`: a write past the checks of Cell and Board
write_value(b, row, col, value) == [b EXCEPT !.cells[row][col].value = value]

\* PuzzleGenerator._fill_box, numbers being the shuffled list
_fill_box(b, row_start, col_start, numbers) ==
    [b EXCEPT !.cells = [row \in Idx |-> [col \in Idx |->
        IF /\ row \in row_start .. (row_start + 2)
           /\ col \in col_start .. (col_start + 2)
        THEN [b.cells[row][col] EXCEPT
                 !.value = numbers[(row - row_start) * 3 + (col - col_start) + 1]]
        ELSE b.cells[row][col]]]]

\* as _copy_board, without the copy of the values
_copy_board_blank(b) ==
    [cells |-> [row \in Idx |-> [col \in Idx |-> Cell(0, FALSE)]],
     validator |-> FALSE]

\* PuzzleGenerator._copy_board: the values on a new Board, nothing given
_copy_board(b) ==
    [cells |-> [row \in Idx |-> [col \in Idx |->
                   Cell(b.cells[row][col].value, FALSE)]],
     validator |-> FALSE]

\* as loop_done, breaking one iteration late
loop_done_late(removed, cnt) == removed > cnt

\* `if removed_count >= count: break`
loop_done(removed, cnt) == removed >= cnt

\* as mark_given, without the test for an empty cell
mark_given_all(b) ==
    [b EXCEPT !.cells = [row \in Idx |-> [col \in Idx |->
        [b.cells[row][col] EXCEPT !.is_given = TRUE]]]]

\* step 3 of generate: `if not cell.is_empty: cell._is_given = True`
mark_given(b) ==
    [b EXCEPT !.cells = [row \in Idx |-> [col \in Idx |->
        IF ~is_empty(b.cells[row][col])
        THEN [b.cells[row][col] EXCEPT !.is_given = TRUE]
        ELSE b.cells[row][col]]]]

\* outcomes of random.shuffle(numbers) for the three diagonal boxes
Ascending == <<1, 2, 3, 4, 5, 6, 7, 8, 9>>
Descending == <<9, 8, 7, 6, 5, 4, 3, 2, 1>>
SeedTriples ==
    { <<Ascending, Ascending, Ascending>>,
      <<Ascending, Descending, Ascending>>,
      <<Descending, Descending, Descending>> }

\* outcomes of random.shuffle(positions): position number (a * i + b) mod 81
\* comes i-th, a permutation of the 81 positions as 3 does not divide a
AffineShuffle(a, b) ==
    [i \in 1 .. 81 |-> LET n == (a * (i - 1) + b) % 81 IN <<n \div 9, n % 9>>]
Shuffles == {AffineShuffle(80, 80), AffineShuffle(80, 8)}

\* the removal counts generate is called with: the small counts, the three
\* difficulty strategies, and the count that leaves one cell
MaxCount == 2
AllButOne == BOARD_SIZE * BOARD_SIZE - 1
Counts ==
    (0 .. MaxCount) \cup
    {EASY_CELLS_TO_REMOVE, MEDIUM_CELLS_TO_REMOVE, HARD_CELLS_TO_REMOVE,
     AllButOne}

GeneratorInit == StartWith(Board, Board, "generate", "idle")

\* _create_full_board up to its call of solve: a new Board, the diagonal
\* boxes filled, and the solver called on that same board (which `work`
\* stands for until the call returns)
GenCreate(numbers) ==
    /\ pc = "generate"
    /\ LET b == _fill_box(_fill_box(_fill_box(Board, 0, 0, numbers[1]),
                                    3, 3, numbers[2]), 6, 6, numbers[3])
       IN  /\ board' = b
           /\ work' = b
           /\ entry' = b
    /\ pc' = "create"
    /\ spc' = "call"
    /\ calls' = calls + 1
    /\ UNCHANGED <<stack, sret>>
    /\ UNCHANGED generatorVars
    /\ UNCHANGED apiVars
    /\ UNCHANGED gameVars

\* solve has returned to _create_full_board, which ignores what it returned;
\* generate reads the removal count and _remove_numbers shuffles the positions
GenCreated(cnt, shuffled) ==
    /\ pc = "create"
    /\ spc = "done"
    /\ board' = work
    /\ full' = work
    /\ count' = cnt
    /\ positions' = shuffled
    /\ pidx' = 1
    /\ removed_count' = 0
    /\ pc' = "remove"
    /\ spc' = "idle"
    /\ UNCHANGED <<work, entry, stack, sret, calls, backup_value>>
    /\ UNCHANGED apiVars
    /\ UNCHANGED gameVars

\* one iteration of the loop of _remove_numbers up to its call of solve: the
\* loop ends when the count is reached or the positions are used up; an
\* empty cell is passed over; any other cell is emptied and the solver is
\* called on a copy of the board
GenRemove ==
    /\ pc = "remove"
    /\ IF pidx > Len(positions) \/ loop_done(removed_count, count)
       THEN /\ pc' = "mark"
            /\ UNCHANGED <<board, work, entry, spc, calls, pidx, backup_value>>
       ELSE LET row == positions[pidx][1]
                col == positions[pidx][2]
                cell == get_cell(board, row, col)
            IN  IF is_empty(cell)
                THEN /\ pidx' = pidx + 1
                     /\ UNCHANGED <<board, pc, work, entry, spc, calls,
                                    backup_value>>
                ELSE /\ backup_value' = cell.value
                     /\ board' = write_value(board, row, col, 0)
                     /\ work' = _copy_board(board')
                     /\ entry' = work'
                     /\ spc' = "call"
                     /\ calls' = calls + 1
                     /\ pc' = "removing"
                     /\ pidx' = pidx
    /\ UNCHANGED <<stack, sret, count, positions, removed_count, full>>
    /\ UNCHANGED apiVars
    /\ UNCHANGED gameVars

\* solve has returned to _remove_numbers: the cell stays empty and is
\* counted, or gets its value back
GenRemoved ==
    /\ pc = "removing"
    /\ spc = "done"
    /\ IF sret
       THEN /\ removed_count' = removed_count + 1
            /\ board' = board
       ELSE /\ board' = write_value(board, positions[pidx][1],
                                    positions[pidx][2], backup_value)
            /\ removed_count' = removed_count
    /\ pidx' = pidx + 1
    /\ pc' = "remove"
    /\ spc' = "idle"
    /\ UNCHANGED <<work, entry, stack, sret, calls, count, positions,
                   backup_value, full>>
    /\ UNCHANGED apiVars
    /\ UNCHANGED gameVars

\* step 3 of generate, and its return
GenMark ==
    /\ pc = "mark"
    /\ board' = mark_given(board)
    /\ pc' = "returned"
    /\ UNCHANGED solverVars
    /\ UNCHANGED generatorVars
    /\ UNCHANGED apiVars
    /\ UNCHANGED gameVars

GeneratorNext ==
    \/ \E numbers \in SeedTriples : GenCreate(numbers)
    \/ \E cnt \in Counts, shuffled \in Shuffles : GenCreated(cnt, shuffled)
    \/ GenRemove
    \/ GenRemoved
    \/ GenMark
    \/ SolveEnter
    \/ SolveLoop
    \/ SolveReturn

GeneratorSpec == GeneratorInit /\ [][GeneratorNext]_vars

\* generate has returned its board
Generated == pc = "returned"

\* _create_full_board with the three boxes seeded in ascending order builds
\* the seeded grid the carved grids are taken from
SeededGridIsBuilt ==
    (pc = "remove" /\ ValueAt(full, <<0, 0>>) = 1 /\ ValueAt(full, <<3, 3>>) = 1
        /\ ValueAt(full, <<6, 6>>) = 1) =>
        \A p \in Pos : ValueAt(full, p) = SeededRows[p[1] + 1][p[2] + 1]

\* C9: the board generate returns has exactly 81 - count nonzero cells
C9_ExactlyCountRemoved == Generated => Filled(board) = 81 - count

\* generate has returned a board for the Hard strategy
C9_Witness ==
    /\ Generated
    /\ count = HARD_CELLS_TO_REMOVE
    /\ Cardinality(Empties(board)) = HARD_CELLS_TO_REMOVE

\* generate has returned a board with one cell left
C9_WitnessAllButOne == Generated /\ count = AllButOne /\ Filled(board) = 1

\* C10: in the board generate returns, a cell is given if and only if its
\* value is nonzero
C10_GivenIffNonzero ==
    Generated => \A p \in Pos : GivenAt(board, p) <=> ValueAt(board, p) # 0

\* generate has returned a board with given cells and empty cells
C10_Witness ==
    /\ Generated
    /\ \E p \in Pos : GivenAt(board, p)
    /\ \E p \in Pos : ValueAt(board, p) = 0

\* C11: in the board generate returns, no two given cells that share a row,
\* a column or a box hold the same value
C11_GivensConsistent ==
    Generated =>
        \A p \in Pos : \A q \in Peers[p] :
            (GivenAt(board, p) /\ GivenAt(board, q)) =>
                ValueAt(board, p) # ValueAt(board, q)

\* generate has returned a board for the Easy strategy, with given cells
\* that share a row
C11_Witness ==
    /\ Generated
    /\ count = EASY_CELLS_TO_REMOVE
    /\ \E row \in Idx : \E c1, c2 \in Idx :
          c1 # c2 /\ GivenAt(board, <<row, c1>>) /\ GivenAt(board, <<row, c2>>)

(***************************************************************************)
(* generate over a wider choice of seeds, with small removal counts        *)
(***************************************************************************)
\* p rotated left by k places
Rotated(p, k) == [i \in 1 .. 9 |-> p[((i - 1 + k) % 9) + 1]]

SeedPerms ==
    {Ascending, Descending, Rotated(Ascending, 3), Rotated(Ascending, 4),
     Rotated(Descending, 2)}
WideSeedTriples == SeedPerms \X SeedPerms \X SeedPerms

\* an outcome of random.shuffle(positions) that starts with four cells which
\* hold 5 4 / 4 5 in the grid built from the ascending seeds, the other
\* positions following in row-major order
RowMajor == [i \in 1 .. 81 |-> <<(i - 1) \div 9, (i - 1) % 9>>]
Rectangle == << <<0, 3>>, <<0, 4>>, <<4, 3>>, <<4, 4>> >>
RectangleFirst ==
    Rectangle \o
        SelectSeq(RowMajor, LAMBDA p : p \notin {Rectangle[i] : i \in 1 .. 4})

MaxCarve == 4
SmallCounts == 0 .. MaxCarve
SmallShuffles == Shuffles \cup {RectangleFirst}

GeneratorSmallNext ==
    \/ \E numbers \in WideSeedTriples : GenCreate(numbers)
    \/ \E cnt \in SmallCounts, shuffled \in SmallShuffles :
          GenCreated(cnt, shuffled)
    \/ GenRemove
    \/ GenRemoved
    \/ GenMark
    \/ SolveEnter
    \/ SolveLoop
    \/ SolveReturn

GeneratorSmallSpec == GeneratorInit /\ [][GeneratorSmallNext]_vars

\* C12: the solver completes every seeded grid (the result that
\* _create_full_board ignores is True), and generate with a removal count
\* of 0 returns a board with 81 given cells, no empty cell, no duplicate,
\* for which is_board_solved is true
C12_SeededGridCompleted ==
    /\ (pc = "create" /\ spc = "done") => sret
    /\ (Generated /\ count = 0) =>
          /\ \A p \in Pos : GivenAt(board, p)
          /\ Empties(board) = {}
          /\ DupFree(board)
          /\ is_board_solved(board)

\* generate has returned a full board built from rotated seeds
C12_Witness ==
    /\ Generated
    /\ count = 0
    /\ Filled(board) = 81
    /\ ValueAt(board, <<0, 0>>) = 4
    /\ ValueAt(board, <<3, 3>>) = 7

\* the values of two boards agree
SameValues(a, b) == \A p \in Pos : ValueAt(a, p) = ValueAt(b, p)

\* generate is between two steps of carving, or has carved: the complete
\* grid has been built, and the solver is not in the middle of a call
Carving ==
    \/ pc \in {"remove", "mark", "returned"}
    \/ pc = "removing" /\ spc \in {"call", "done"}

\* C13: at every step of carving each nonzero cell equals the cell of the
\* complete grid built first, every call of solve on a copy returns True,
\* and the last call was on a copy of the puzzle that generate returns
C13_ReturnedPuzzleSolvable ==
    /\ (pc = "remove" /\ pidx = 1) => (Empties(full) = {} /\ DupFree(full))
    /\ Carving => \A p \in Pos : ValueAt(board, p) \in {0, ValueAt(full, p)}
    /\ (pc = "removing" /\ spc = "done") => sret
    /\ (Generated /\ count > 0) => (SameValues(entry, board) /\ sret)

\* generate has returned a puzzle for the Medium strategy, the solver having
\* returned True on a copy of it
C13_Witness ==
    /\ Generated
    /\ count = MEDIUM_CELLS_TO_REMOVE
    /\ Filled(board) = 81 - MEDIUM_CELLS_TO_REMOVE
    /\ SameValues(entry, board)
    /\ Empties(work) = {}
    /\ sret

\* C14: every puzzle generate returns has exactly one valid completion
C14_UniqueCompletion == Generated => Cardinality(Completions(board)) = 1

(***************************************************************************)
(* Timer, with time.time() read from `clock`                               *)
(***************************************************************************)
\* Timer.start
Timer_start(t, now) ==
    [start_time |-> now, elapsed_time |-> 0, is_running |-> TRUE,
     is_paused |-> FALSE, pause_start |-> 0]

\* Timer.stop
Timer_stop(t) ==
    [t EXCEPT !.is_running = FALSE, !.is_paused = FALSE, !.elapsed_time = 0]

\* Timer.pause
Timer_pause(t, now) ==
    IF t.is_running /\ ~t.is_paused
    THEN [t EXCEPT !.is_paused = TRUE, !.pause_start = now]
    ELSE t

\* as Timer_resume, without the pause added to the start time
Timer_resume_plain(t, now) ==
    IF t.is_running /\ t.is_paused
    THEN [t EXCEPT !.is_paused = FALSE, !.pause_start = 0]
    ELSE t

\* Timer.resume
Timer_resume(t, now) ==
    IF t.is_running /\ t.is_paused
    THEN [t EXCEPT !.start_time = t.start_time + (now - t.pause_start),
                   !.is_paused = FALSE, !.pause_start = 0]
    ELSE t

\* Timer.get_elapsed_time
get_elapsed_time(t, now) ==
    IF ~t.is_running THEN 0
    ELSE IF t.is_paused THEN t.pause_start - t.start_time
    ELSE now - t.start_time

\* the text MM:SS as the pair <<minutes, seconds>>
FormatTime(elapsed) == <<elapsed \div 60, elapsed % 60>>

\* Timer.get_formatted_time
get_formatted_time(t, now) == FormatTime(get_elapsed_time(t, now))

\* time passes, up to a limit
Tick(limit) ==
    /\ clock < limit
    /\ clock' = clock + 1
    /\ tobs' = IF timer.is_running /\ timer.is_paused
               THEN [tobs EXCEPT !.paused = tobs.paused + 1]
               ELSE tobs
    /\ UNCHANGED <<board, pc, state, selected_cell, history, redo_stack,
                   statistics, timer, games, puzzle, snap>>
    /\ UNCHANGED solverVars
    /\ UNCHANGED generatorVars
    /\ UNCHANGED apiVars

(***************************************************************************)
(* The commands and CommandHistory                                         *)
(***************************************************************************)
\* SetCellCommand.__init__: the command keeps the board it was made for
\* (game: the number of the game that board belongs to) and the old value
SetCellCommand(b, game, row, col, new_value) ==
    [kind |-> "set", game |-> game, row |-> row, col |-> col,
     new_value |-> new_value, old_value |-> get_cell(b, row, col).value]

\* ClearCellCommand.__init__
ClearCellCommand(b, game, row, col) ==
    [kind |-> "clear", game |-> game, row |-> row, col |-> col,
     new_value |-> 0, old_value |-> get_cell(b, row, col).value]

\* SetCellCommand.execute and ClearCellCommand.execute
command_execute(cmd, b) ==
    IF cmd.kind = "set"
    THEN set_cell(b, cmd.row, cmd.col, cmd.new_value).board
    ELSE clear_cell(b, cmd.row, cmd.col)

\* as command_undo, the board left as it is
command_undo_kept(cmd, b) == b

\* SetCellCommand.undo and ClearCellCommand.undo
command_undo(cmd, b) ==
    IF cmd.kind = "set"
    THEN IF cmd.old_value = 0
         THEN clear_cell(b, cmd.row, cmd.col)
         ELSE set_cell(b, cmd.row, cmd.col, cmd.old_value).board
    ELSE IF cmd.old_value # 0
         THEN set_cell(b, cmd.row, cmd.col, cmd.old_value).board
         ELSE b

\* as redo_after_execute, the redo stack kept
redo_after_execute_kept(stack_) == stack_

\* `self._redo_stack.clear()` in CommandHistory.execute
redo_after_execute(stack_) == <<>>

\* as can_undo, false with one command on the history
can_undo_deep(h) == Len(h) > 1

\* CommandHistory.can_undo and can_redo
can_undo(h) == Len(h) > 0
can_redo(r) == Len(r) > 0

\* as ButLast, the last element left in place
ButLast_kept(q) == q

\* a stack after `pop()`: the sequence without its last element
ButLast(q) == SubSeq(q, 1, Len(q) - 1)

\* a stack after `append(command)`
push(q, command) == Append(q, command)

\* as history_after_clear, the history kept
history_after_clear_kept(h) == h

\* `self._history.clear()` in CommandHistory.clear
history_after_clear(h) == <<>>

\* StatisticsManager.record_move, record_undo, record_redo, record_hint
record_move(st) == [st EXCEPT !.moves = st.moves + 1]
record_undo(st) == [st EXCEPT !.undos = st.undos + 1]
record_redo(st) == [st EXCEPT !.redos = st.redos + 1]
record_hint(st) == [st EXCEPT !.hints_used = st.hints_used + 1]

\* StatisticsManager.record_invalid_move, which nothing in the game calls
record_invalid_move(st) == [st EXCEPT !.invalid_moves = st.invalid_moves + 1]

\* Game._place_number(row, col, number), stats being the statistics when it
\* is called
PlaceNumber(row, col, number, stats) ==
    IF get_cell(board, row, col).is_given
    THEN /\ statistics' = stats
         /\ UNCHANGED <<board, history, redo_stack, timer, state, tobs>>
    ELSE LET command == SetCellCommand(board, games, row, col, number)
             b == command_execute(command, board)
         IN  /\ board' = b
             /\ history' = push(history, command)
             /\ redo_stack' = redo_after_execute(redo_stack)
             /\ statistics' = record_move(stats)
             /\ IF is_board_solved(b)
                THEN /\ timer' = Timer_stop(timer)
                     /\ state' = "won"
                     /\ tobs' = [tobs EXCEPT !.won_at = clock]
                ELSE UNCHANGED <<timer, state, tobs>>

(***************************************************************************)
(* HintProvider.get_hint, called by Game._use_hint on the board in play    *)
(***************************************************************************)
\* HintProvider._find_empty_cells: the empty cells of the board
_find_empty_cells(b) == {p \in Pos : is_empty(get_cell(b, p[1], p[2]))}

\* as HintProvider_copy_board, with the last row left out of the copy
HintProvider_copy_board_short(b) ==
    [cells |-> [row \in Idx |-> [col \in Idx |->
                   IF row < 8 /\ ~is_empty(b.cells[row][col])
                   THEN Cell(b.cells[row][col].value, b.cells[row][col].is_given)
                   ELSE Cell(0, FALSE)]],
     validator |-> FALSE]

\* HintProvider._copy_board: a new Board with the value and the given flag
\* of every cell that is not empty
HintProvider_copy_board(b) ==
    [cells |-> [row \in Idx |-> [col \in Idx |->
                   IF ~is_empty(b.cells[row][col])
                   THEN Cell(b.cells[row][col].value, b.cells[row][col].is_given)
                   ELSE Cell(0, FALSE)]],
     validator |-> FALSE]

\* as correct_value, with row and column exchanged
correct_value_transposed(board_copy, row, col) ==
    get_cell(board_copy, col, row).value

\* `correct_value = board_copy.get_cell(row, col).value`
correct_value(board_copy, row, col) == get_cell(board_copy, row, col).value

\* what get_hint returns: ret is FALSE for None, TRUE for (row, col, value)
NoHint ==
    [op |-> "get_hint", row |-> 0, col |-> 0, value |-> 0, ret |-> FALSE]

\* as get_hint_result, without the test of what solve returned
get_hint_result_unchecked(solved, board_copy, cell) ==
    [op |-> "get_hint", row |-> cell[1], col |-> cell[2],
     value |-> correct_value(board_copy, cell[1], cell[2]), ret |-> TRUE]

\* get_hint from the return of solve on: None if solve failed, else the
\* chosen empty cell with the value the solved copy holds there
get_hint_result(solved, board_copy, cell) ==
    IF ~solved THEN NoHint
    ELSE [op |-> "get_hint", row |-> cell[1], col |-> cell[2],
          value |-> correct_value(board_copy, cell[1], cell[2]), ret |-> TRUE]

\* as caller_board, the copy sharing its cells with the board copied
caller_board_shared(b, board_copy) ==
    [b EXCEPT !.cells = [row \in Idx |-> [col \in Idx |->
        [b.cells[row][col] EXCEPT !.value = board_copy.cells[row][col].value]]]]

\* the caller's board once solve has run on the copy: the copy is a new
\* Board with new cells, so nothing solve wrote shows in the caller's board
caller_board(b, board_copy) == b

\* the cells carved out of the seeded grid for the hints, and how many at a
\* time; how many hints are placed in a row
MaxHintBlanks == 3
MaxHints == 2

\* the cells generate has carved for EasyStrategy besides the cells S of
\* SolverPool, in row-major order
HintFill(S) ==
    SubSeq(SelectSeq(RowMajor, LAMBDA p : p \notin SolverPool),
           1, EASY_CELLS_TO_REMOVE - Cardinality(S))

\* the puzzles generate returns to _start_game: the seeded grid with
\* EASY_CELLS_TO_REMOVE cells carved, up to MaxHintBlanks cells of
\* SolverPool among them, or the four cells of the rectangle (the grid carved
\* at these four alone has two completions)
HintCarves ==
    {T \in SUBSET SolverPool : Cardinality(T) <= MaxHintBlanks}
        \cup {{Rectangle[i] : i \in 1 .. 4}}
HintPuzzle(S) ==
    set_validator(Carved(S \cup {HintFill(S)[i] : i \in 1 .. Len(HintFill(S))}))

\* a game as Game._start_game leaves it on puzzle b when the clock reads 0
HintGame(b) ==
    [board |-> b, puzzle |-> b, state |-> "playing", selected_cell |-> None,
     history |-> <<>>, statistics |-> StatisticsManager,
     timer |-> Timer_start(Timer, 0)]

\* game g after a click on cell p and the number key v: in the PLAYING state
\* the click selects the cell and the key goes to _place_number, which
\* leaves a given cell alone and ends the game on a solved board; in the WON
\* state neither event is handled
HintGamePlaced(g, p, v) ==
    IF g.state # "playing"
    THEN g
    ELSE IF get_cell(g.board, p[1], p[2]).is_given
    THEN [g EXCEPT !.selected_cell = p]
    ELSE LET command == SetCellCommand(g.board, 1, p[1], p[2], v)
             b == command_execute(command, g.board)
         IN  [g EXCEPT !.selected_cell = p,
                       !.board = b,
                       !.history = push(g.history, command),
                       !.statistics = record_move(g.statistics),
                       !.timer = IF is_board_solved(b)
                                 THEN Timer_stop(g.timer) ELSE g.timer,
                       !.state = IF is_board_solved(b)
                                 THEN "won" ELSE g.state]

\* max and min of Python, on two integers
max(a, b) == IF a >= b THEN a ELSE b
min(a, b) == IF a <= b THEN a ELSE b

\* game g after the player has filled in the cells lo + 1 .. hi of the
\* sequence `cells`, each with the value the seeded grid holds
RECURSIVE HintGameFilled(_, _, _, _)
HintGameFilled(g, cells, lo, hi) ==
    IF hi <= lo
    THEN g
    ELSE HintGamePlaced(HintGameFilled(g, cells, lo, hi - 1), cells[hi],
                        SeededRows[cells[hi][1] + 1][cells[hi][2] + 1])

\* the games on the puzzles of HintCarves once the player has filled in the
\* first n cells of HintFill, nine cells at a time
RECURSIVE HintGamesFilled(_)
HintGamesFilled(n) ==
    IF n <= 0
    THEN {[carve |-> S, game |-> HintGame(HintPuzzle(S))] : S \in HintCarves}
    ELSE {[x EXCEPT !.game =
              HintGameFilled(x.game, HintFill(x.carve),
                             min(max(0, n - 9), Len(HintFill(x.carve))),
                             min(n, Len(HintFill(x.carve))))] :
             x \in HintGamesFilled(n - 9)}

\* the digits the player types: the values the seeded grid holds at (0, 0)
\* and at (0, 3)
HintDigits == {SeededRows[1][1], SeededRows[1][4]}

\* the games in play: the cells of HintFill filled in and those of SolverPool
\* left as they are, after a click on one of these and a number key, and
\* after a second number key on the cell selected; a game that a placement
\* has won is no longer in play
HintGames ==
    LET started == {x.game : x \in HintGamesFilled(EASY_CELLS_TO_REMOVE)}
        once == {HintGamePlaced(g, p, v) :
                    g \in started, p \in SolverPool, v \in HintDigits}
        twice == {HintGamePlaced(g, g.selected_cell, v) :
                     g \in {h \in once : h.state = "playing"},
                     v \in HintDigits}
    IN  {g \in started \cup once \cup twice : g.state = "playing"}

\* the Game is in game g, the clock still reading 0
HintInit ==
    \E g \in HintGames :
        /\ StartCore(g.board, Board, "api", "idle")
        /\ state = g.state
        /\ selected_cell = g.selected_cell
        /\ history = g.history
        /\ redo_stack = <<>>
        /\ statistics = g.statistics
        /\ timer = g.timer
        /\ clock = 0
        /\ games = 1
        /\ puzzle = g.puzzle
        /\ snap = NoSnap
        /\ tobs = NoTimes

\* get_hint up to its call of solve: None at once when no cell is empty,
\* otherwise solve is called on a copy of the board
HintCall ==
    /\ pc = "api"
    /\ state = "playing"
    /\ IF _find_empty_cells(board) = {}
       THEN /\ last' = NoHint
            /\ pc' = "hinted"
            /\ UNCHANGED <<work, entry, spc, calls>>
       ELSE /\ work' = HintProvider_copy_board(board)
            /\ entry' = work'
            /\ spc' = "call"
            /\ calls' = calls + 1
            /\ pc' = "hint"
            /\ last' = last
    /\ UNCHANGED <<board, stack, sret, ops>>
    /\ UNCHANGED generatorVars
    /\ UNCHANGED gameVars

\* solve has returned to get_hint, which returns None or the cell that
\* random.choice picked among the empty cells
HintReturn(cell) ==
    /\ pc = "hint"
    /\ spc = "done"
    /\ cell \in _find_empty_cells(board)
    /\ last' = get_hint_result(sret, work, cell)
    /\ board' = caller_board(board, work)
    /\ pc' = "hinted"
    /\ spc' = "idle"
    /\ UNCHANGED <<work, entry, stack, sret, calls, ops>>
    /\ UNCHANGED generatorVars
    /\ UNCHANGED gameVars

\* Game._use_hint with a hint: the hint is counted, its cell selected and
\* its value placed by _place_number
HintPlace ==
    /\ pc = "hinted"
    /\ last.ret
    /\ ops < MaxHints
    /\ selected_cell' = <<last.row, last.col>>
    /\ PlaceNumber(last.row, last.col, last.value, record_hint(statistics))
    /\ last' = [op |-> "set_cell", row |-> last.row, col |-> last.col,
                value |-> last.value,
                ret |-> IF get_cell(board, last.row, last.col).is_given
                        THEN FALSE
                        ELSE set_cell(board, last.row, last.col,
                                      last.value).ret]
    /\ pc' = IF state' = "won" THEN "won" ELSE "api"
    /\ ops' = ops + 1
    /\ UNCHANGED <<clock, games, puzzle, snap>>
    /\ UNCHANGED solverVars
    /\ UNCHANGED generatorVars

HintNext ==
    \/ HintCall
    \/ \E cell \in Pos : HintReturn(cell)
    \/ HintPlace
    \/ SolveEnter
    \/ SolveLoop
    \/ SolveReturn

HintSpec == HintInit /\ [][HintNext]_vars

\* get_hint has returned
Hinted == pc = "hinted" /\ last.op = "get_hint"

\* C15: get_hint returns None if and only if the board has no empty cell or
\* cannot be completed (solve fails on the copy); otherwise it returns a
\* cell and a value
C15_NoHintIffFullOrUnsolvable ==
    Hinted =>
        /\ ~last.ret <=> (Empties(board) = {} \/ Completions(board) = {})
        /\ ~last.ret <=> (Empties(board) = {} \/ ~sret)
        /\ last.ret =>
              (last.row \in Idx /\ last.col \in Idx /\ last.value \in Digits)

\* get_hint has returned None on a board with an empty cell
C15_Witness == Hinted /\ ~last.ret /\ Empties(board) # {} /\ ~sret

\* get_hint has returned None on a full board
C15_WitnessFull == Hinted /\ ~last.ret /\ Empties(board) = {}

\* get_hint has returned a hint
C15_WitnessHint == Hinted /\ last.ret /\ sret

\* the cell of the hint
HintCell == <<last.row, last.col>>

\* C16: when get_hint returns (row, col, value), the cell is empty in the
\* caller's board, and value is the value solve has placed there in a copy
\* of that board: the value of the first completion in row-major order; with
\* one empty cell the hint is that cell
C16_HintIsSolverValue ==
    (Hinted /\ last.ret) =>
        /\ ValueAt(board, HintCell) = 0
        /\ SameValues(entry, board)
        /\ sret
        /\ last.value = ValueAt(work, HintCell)
        /\ Assigned \in Completions(board)
        /\ \A g \in Completions(board) : ~LexLess(g, Assigned)
        /\ Cardinality(Empties(board)) = 1 => Empties(board) = {HintCell}

\* get_hint has returned a hint for a board with two completions, which is
\* not the value the cell had in the grid the board was carved from
C16_Witness ==
    /\ Hinted /\ last.ret
    /\ Cardinality(Completions(board)) > 1
    /\ last.value # SeededRows[last.row + 1][last.col + 1]

\* get_hint has returned a hint for a board with one empty cell
C16_WitnessOneCell ==
    Hinted /\ last.ret /\ Cardinality(Empties(board)) = 1

\* C17: on a duplicate-free board every hint is a correct value: it passes
\* is_valid_move on the caller's board, set_cell accepts it, and the board
\* with the value placed can still be completed
C17_HintIsCorrect ==
    (Hinted /\ last.ret /\ DupFree(board)) =>
        LET r == set_cell(board, last.row, last.col, last.value) IN
        /\ is_valid_move(board, last.row, last.col, last.value)
        /\ r.ret
        /\ ValueAt(r.board, HintCell) = last.value
        /\ Completions(r.board) # {}

\* a hint has been placed on a board that has a validator, and set_cell has
\* accepted it
C17_Witness ==
    /\ pc \in {"api", "won"}
    /\ last.op = "set_cell"
    /\ last.ret
    /\ ops > 0
    /\ board.validator
    /\ ValueAt(board, HintCell) = last.value

\* C18: get_hint does not modify the caller's board: from the call to the
\* return no step changes the value, the given flag or the validity flag of
\* a cell, whether the result is a hint or None
C18_HintLeavesBoard ==
    [][(pc \in {"api", "hint"}) => board' = board]_vars

\* get_hint has returned a hint on a board with a cell marked invalid, the
\* solver having filled the copy
C18_Witness ==
    /\ Hinted /\ last.ret
    /\ \E p \in Pos : ~get_cell(board, p[1], p[2]).is_valid
    /\ Empties(work) = {}
    /\ Empties(board) # {}

\* get_hint has returned None after a search that failed
C18_WitnessNone ==
    Hinted /\ ~last.ret /\ Empties(board) # {} /\ calls > 0

(***************************************************************************)
(* Board.set_cell on the board in play: the calls that are refused         *)
(***************************************************************************)
\* the step is a call of set_cell
SetCellStep == last'.op = "set_cell" /\ ops' = ops + 1

\* C19: set_cell on a given cell returns False, for every value 0..9, and
\* leaves the value, the given flag and the validity flag of every cell as
\* they were
C19_GivenCellRejects ==
    [][(SetCellStep /\ GivenAt(board, <<last'.row, last'.col>>)) =>
          (~last'.ret /\ board' = board)]_vars

\* set_cell has been called on a given cell with a value that the rules
\* allow there, and has returned False
C19_Witness ==
    /\ last.op = "set_cell"
    /\ ~last.ret
    /\ GivenAt(board, <<last.row, last.col>>)
    /\ is_valid_move(board, last.row, last.col, last.value)

\* set_cell has been called on a given cell with the value 0
C19_WitnessZero ==
    /\ last.op = "set_cell"
    /\ ~last.ret
    /\ GivenAt(board, <<last.row, last.col>>)
    /\ last.value = 0

\* C20: set_cell on a cell that is not given, with a value 1..9 that breaks
\* the row, column or box rule, returns False and leaves every cell's value,
\* given flag and validity flag as they were
C20_RejectedMoveKeepsState ==
    [][(/\ SetCellStep
        /\ ~GivenAt(board, <<last'.row, last'.col>>)
        /\ last'.value \in Digits
        /\ ~is_valid_move(board, last'.row, last'.col, last'.value)) =>
          (~last'.ret /\ board' = board)]_vars

(***************************************************************************)
(* Game: the events the main loop handles, one handler per step            *)
(***************************************************************************)
\* pygame.KEYDOWN and pygame.K_ESCAPE
KEYDOWN == 768
K_ESCAPE == 27

\* two cells generate has carved, and the cells that share no row, column
\* or box with either of them, in row-major order
GameCarve == {<<0, 0>>, <<0, 3>>}
Unrelated == {p \in Pos : \A q \in GameCarve : p # q /\ p \notin Peers[q]}
UnrelatedOrder == SelectSeq(RowMajor, LAMBDA p : p \in Unrelated)

\* the cells generate has carved for EasyStrategy besides those of GameCarve
GameFill ==
    {UnrelatedOrder[i] :
        i \in 1 .. (EASY_CELLS_TO_REMOVE - Cardinality(GameCarve))}

\* the puzzles generate returns to _start_game: the seeded grid with
\* EASY_CELLS_TO_REMOVE cells carved, those of GameCarve among them
GamePuzzle == Carved(GameCarve \cup GameFill)
GamePuzzles == {GamePuzzle}

\* the cells the player clicks, the cells the arrow keys may lead to, the
\* arrow keys as (dx, dy), and the number keys the player presses
GameClicks == GameCarve
GameReach == {<<0, 0>>, <<0, 1>>, <<0, 3>>, <<4, 4>>}
Arrows == {<<0, -1>>, <<0, 1>>, <<-1, 0>>, <<1, 0>>}
GameDigits == {1, 5}

\* how many games are started, how many actions are made on the boards, and
\* how far the clock runs
MaxGames == 2
MaxGameOps == 2
MaxGameClock == 1

\* what the handler of an event did
Did(op, row, col, value, ret) ==
    [op |-> op, row |-> row, col |-> col, value |-> value, ret |-> ret]

\* Game.__init__: the menu, no board
GameInit == StartWith(None, Board, "game", "idle")

\* the main loop is handling the events of a batch: _running is True
\* ("game"), or a QUIT event of this batch has set it to False ("quitting")
\* and the events that follow it in the batch are still handled
Handling == pc \in {"game", "quitting"}

\* the game is in play and the main loop is about to handle an event
Playing == Handling /\ state = "playing"

\* a click on a difficulty button in the menu: Game._start_game, generate
\* returning puzzle p
StartGame(p) ==
    /\ Handling
    /\ state = "menu"
    /\ board' = set_validator(p)
    /\ history' = history_after_clear(history)
    /\ redo_stack' = <<>>
    /\ timer' = Timer_start(timer, clock)
    /\ statistics' = StatisticsManager
    /\ state' = "playing"
    /\ selected_cell' = None
    /\ games' = games + 1
    /\ puzzle' = board'
    /\ snap' = NoSnap
    /\ tobs' = [started_at |-> clock, paused |-> 0, won_at |-> 0]
    /\ last' = Did("start_game", 0, 0, 0, TRUE)
    /\ UNCHANGED <<pc, ops, clock>>
    /\ UNCHANGED solverVars
    /\ UNCHANGED generatorVars

\* pygame.QUIT: _handle_events sets _running to False and goes on with the
\* events of the batch
Quit ==
    /\ Handling
    /\ pc' = "quitting"
    /\ UNCHANGED <<board, last, ops>>
    /\ UNCHANGED gameVars
    /\ UNCHANGED solverVars
    /\ UNCHANGED generatorVars

\* the batch is handled and `while self._running` finds _running False: the
\* main loop ends
LoopExit ==
    /\ pc = "quitting"
    /\ pc' = "quit"
    /\ UNCHANGED <<board, last, ops>>
    /\ UNCHANGED gameVars
    /\ UNCHANGED solverVars
    /\ UNCHANGED generatorVars

\* as ReturnToMenu, the board kept
ReturnToMenu_kept ==
    /\ Playing
    /\ timer' = Timer_stop(timer)
    /\ state' = "menu"
    /\ selected_cell' = None
    /\ snap' = NoSnap
    /\ last' = Did("return_to_menu", 0, 0, 0, TRUE)
    /\ UNCHANGED <<board, pc, ops, history, redo_stack, statistics, clock,
                   games, puzzle, tobs>>
    /\ UNCHANGED solverVars
    /\ UNCHANGED generatorVars

\* Game._return_to_menu: ESC while playing, or a click on New Game
ReturnToMenu ==
    /\ Playing
    /\ timer' = Timer_stop(timer)
    /\ state' = "menu"
    /\ board' = None
    /\ selected_cell' = None
    /\ snap' = NoSnap
    /\ last' = Did("return_to_menu", 0, 0, 0, TRUE)
    /\ UNCHANGED <<pc, ops, history, redo_stack, statistics, clock, games,
                   puzzle, tobs>>
    /\ UNCHANGED solverVars
    /\ UNCHANGED generatorVars

\* a KEYDOWN event in a state other than PLAYING: _handle_events compares
\* event.type, which is KEYDOWN, with K_ESCAPE, and would leave the main
\* loop if they were equal
KeyIgnored(key) ==
    /\ Handling
    /\ state # "playing"
    /\ pc' = IF KEYDOWN = K_ESCAPE THEN "quitting" ELSE pc
    /\ last' = Did("keydown", 0, 0, key, FALSE)
    /\ UNCHANGED <<board, ops>>
    /\ UNCHANGED gameVars
    /\ UNCHANGED solverVars
    /\ UNCHANGED generatorVars

\* Game._handle_mouse_click: a click on a cell of the board
ClickCell(cell) ==
    /\ Playing
    /\ selected_cell' = cell
    /\ UNCHANGED <<board, pc, state, history, redo_stack, statistics, timer,
                   clock, games, puzzle, snap, tobs>>
    /\ UNCHANGED solverVars
    /\ UNCHANGED generatorVars
    /\ UNCHANGED apiVars

\* Game._move_selection(dx, dy): the selection moves by one cell and stays
\* at the edge; with nothing selected the centre cell is selected
_move_selection(selected, dx, dy) ==
    IF selected # None
    THEN LET new_row == max(0, min(8, selected[1] + dy))
             new_col == max(0, min(8, selected[2] + dx))
         IN  <<new_row, new_col>>
    ELSE <<4, 4>>

\* an arrow key while playing
KeyArrow(dx, dy) ==
    /\ Playing
    /\ selected_cell' = _move_selection(selected_cell, dx, dy)
    /\ UNCHANGED <<board, pc, state, history, redo_stack, statistics, timer,
                   clock, games, puzzle, snap, tobs>>
    /\ UNCHANGED solverVars
    /\ UNCHANGED generatorVars
    /\ UNCHANGED apiVars

\* a number key while playing, a cell being selected
KeyNumber(number) ==
    /\ Playing
    /\ selected_cell # None
    /\ PlaceNumber(selected_cell[1], selected_cell[2], number, statistics)
    /\ last' = Did("place", selected_cell[1], selected_cell[2], number,
                   ~get_cell(board, selected_cell[1], selected_cell[2]).is_given)
    /\ snap' = NoSnap
    /\ UNCHANGED <<pc, selected_cell, clock, games, puzzle>>
    /\ UNCHANGED solverVars
    /\ UNCHANGED generatorVars

\* Delete or Backspace while playing, a cell being selected: Game._clear_cell
KeyDelete ==
    /\ Playing
    /\ selected_cell # None
    /\ LET row == selected_cell[1]
           col == selected_cell[2]
       IN  IF get_cell(board, row, col).is_given
           THEN /\ UNCHANGED <<board, history, redo_stack>>
                /\ last' = Did("clear", row, col, 0, FALSE)
           ELSE LET command == ClearCellCommand(board, games, row, col) IN
                /\ board' = command_execute(command, board)
                /\ history' = push(history, command)
                /\ redo_stack' = redo_after_execute(redo_stack)
                /\ last' = Did("clear", row, col, 0, TRUE)
    /\ snap' = NoSnap
    /\ UNCHANGED <<pc, state, selected_cell, statistics, timer, clock, games,
                   puzzle, tobs>>
    /\ UNCHANGED solverVars
    /\ UNCHANGED generatorVars

\* Ctrl+Z while playing: Game._undo and CommandHistory.undo
KeyUndo ==
    /\ Playing
    /\ IF ~can_undo(history)
       THEN /\ UNCHANGED <<board, history, redo_stack, statistics>>
            /\ snap' = NoSnap
            /\ last' = Did("undo", 0, 0, 0, FALSE)
       ELSE LET command == history[Len(history)] IN
            /\ history' = ButLast(history)
            /\ board' = command_undo(command, board)
            /\ redo_stack' = push(redo_stack, command)
            /\ statistics' = record_undo(statistics)
            /\ snap' = [stage |-> "undone", board |-> board,
                        history |-> history, redo_stack |-> redo_stack]
            /\ last' = Did("undo", command.row, command.col,
                           command.old_value, TRUE)
    /\ UNCHANGED <<pc, state, selected_cell, timer, clock, games, puzzle, tobs>>
    /\ UNCHANGED solverVars
    /\ UNCHANGED generatorVars

\* Ctrl+Y while playing: Game._redo and CommandHistory.redo
KeyRedo ==
    /\ Playing
    /\ IF ~can_redo(redo_stack)
       THEN /\ UNCHANGED <<board, history, redo_stack, statistics>>
            /\ snap' = NoSnap
            /\ last' = Did("redo", 0, 0, 0, FALSE)
       ELSE LET command == redo_stack[Len(redo_stack)] IN
            /\ redo_stack' = ButLast(redo_stack)
            /\ board' = command_execute(command, board)
            /\ history' = push(history, command)
            /\ statistics' = record_redo(statistics)
            /\ snap' = IF snap.stage = "undone"
                       THEN [snap EXCEPT !.stage = "redone"]
                       ELSE NoSnap
            /\ last' = Did("redo", command.row, command.col,
                           command.new_value, TRUE)
    /\ UNCHANGED <<pc, state, selected_cell, timer, clock, games, puzzle, tobs>>
    /\ UNCHANGED solverVars
    /\ UNCHANGED generatorVars

\* a click on Hint while playing: Game._use_hint up to the call of solve in
\* get_hint; with no empty cell get_hint returns None at once
ClickHint ==
    /\ Playing
    /\ IF _find_empty_cells(board) = {}
       THEN /\ last' = NoHint
            /\ UNCHANGED <<pc, work, entry, spc, calls>>
       ELSE /\ work' = HintProvider_copy_board(board)
            /\ entry' = work'
            /\ spc' = "call"
            /\ calls' = calls + 1
            /\ pc' = IF pc = "game" THEN "game_hint" ELSE "quitting_hint"
            /\ UNCHANGED last
    /\ snap' = NoSnap
    /\ UNCHANGED <<board, stack, sret, state, selected_cell, history,
                   redo_stack, statistics, timer, clock, games, puzzle, tobs>>
    /\ UNCHANGED generatorVars

\* solve has returned to get_hint, and get_hint to Game._use_hint, which
\* counts the hint, selects its cell and places its value
HintUsed(cell) ==
    /\ pc \in {"game_hint", "quitting_hint"}
    /\ spc = "done"
    /\ cell \in _find_empty_cells(board)
    /\ LET hint == get_hint_result(sret, work, cell) IN
       IF hint.ret
       THEN /\ selected_cell' = <<hint.row, hint.col>>
            /\ PlaceNumber(hint.row, hint.col, hint.value,
                           record_hint(statistics))
            /\ last' = Did("hint", hint.row, hint.col, hint.value, TRUE)
       ELSE /\ last' = NoHint
            /\ UNCHANGED <<board, state, selected_cell, history, redo_stack,
                           statistics, timer, tobs>>
    /\ pc' = IF pc = "game_hint" THEN "game" ELSE "quitting"
    /\ spc' = "idle"
    /\ snap' = NoSnap
    /\ UNCHANGED <<work, entry, stack, sret, calls, clock, games, puzzle>>
    /\ UNCHANGED generatorVars

\* the cells of GameFill in row-major order: the player begins a game by
\* filling them in, in this order, each with the value the seeded grid holds
FillOrder == SelectSeq(RowMajor, LAMBDA p : p \in GameFill)

\* the player is filling in the cells of GameFill, and the next of them
Filling == Playing /\ statistics.moves < Len(FillOrder)
FillCell == FillOrder[statistics.moves + 1]

\* the cells of GameFill are filled in, and the player acts on the board
FillDone == Playing /\ statistics.moves >= Len(FillOrder)

\* the player clicks the next cell to fill in
FillClick ==
    /\ Filling
    /\ selected_cell # FillCell
    /\ ClickCell(FillCell)

\* the player types the value of the cell clicked
FillPlace ==
    /\ Filling
    /\ selected_cell = FillCell
    /\ KeyNumber(SeededRows[FillCell[1] + 1][FillCell[2] + 1])
    /\ UNCHANGED ops

\* an arrow key that leads to a cell of GameReach
ReachArrow ==
    \E d \in Arrows :
        /\ _move_selection(selected_cell, d[1], d[2]) \in GameReach
        /\ KeyArrow(d[1], d[2])

\* the handlers of the events that act on the board in play, counted
GameOp ==
    /\ \/ \E number \in GameDigits : KeyNumber(number)
       \/ KeyDelete
       \/ KeyUndo
       \/ KeyRedo
    /\ ops' = ops + 1

GameNext ==
    \/ games < MaxGames /\ \E p \in GamePuzzles : StartGame(p)
    \/ ReturnToMenu
    \/ \E key \in {K_ESCAPE} : KeyIgnored(key)
    \/ Quit
    \/ LoopExit
    \/ FillClick
    \/ FillPlace
    \/ FillDone /\ \E cell \in GameClicks : ClickCell(cell)
    \/ FillDone /\ ReachArrow
    \/ FillDone /\ ops < MaxGameOps /\ GameOp
    \/ FillDone /\ ops < MaxGameOps /\ ClickHint /\ ops' = ops + 1
    \/ \E cell \in Pos : HintUsed(cell) /\ UNCHANGED ops
    \/ pc = "game" /\ Tick(MaxGameClock)
    \/ SolveEnter
    \/ SolveLoop
    \/ SolveReturn

GameSpec == GameInit /\ [][GameNext]_vars

\* one game in which the player acts on the cells of GameCarve from the
\* start, and how many actions are made on its board
MaxHistoryOps == 5

HistoryNext ==
    \/ games = 0 /\ StartGame(GamePuzzle)
    \/ \E cell \in GameClicks : ClickCell(cell)
    \/ ReachArrow
    \/ ops < MaxHistoryOps /\ GameOp

HistorySpec == GameInit /\ [][HistoryNext]_vars

\* C21: within one game no place-number, clear-cell, undo, redo, hint or
\* Board.reset changes the value or the given flag of a given cell, and no
\* cell that is not given becomes given
C21_GivenCellsImmutable ==
    [][(state = "playing" /\ state' # "menu" /\ games' = games) =>
          \A p \in Pos :
              /\ GivenAt(board', p) = GivenAt(board, p)
              /\ GivenAt(board, p) => ValueAt(board', p) = ValueAt(board, p)]_vars

\* Board.reset has been called in a game in which commands were executed,
\* an arrow key having led to a given cell
C21_Witness ==
    /\ state = "playing"
    /\ last.op = "reset"
    /\ Len(history) > Len(FillOrder)
    /\ selected_cell # None
    /\ GivenAt(board, selected_cell)

\* a number key has been pressed on a given cell
C21_WitnessGiven ==
    /\ state = "playing"
    /\ last.op = "place"
    /\ ~last.ret
    /\ GivenAt(board, selected_cell)

\* the handler of the last event executed a new command
FreshAction == last.op \in {"place", "clear", "hint"} /\ last.ret

\* C22: CommandHistory.execute runs the command, puts it on top of the
\* history and empties the redo stack: after a fresh action can_redo() is
\* false
C22_ExecuteClearsRedo ==
    FreshAction =>
        /\ ~can_redo(redo_stack)
        /\ can_undo(history)
        /\ LET command == history[Len(history)] IN
           /\ command.row = last.row
           /\ command.col = last.col
           /\ command.new_value = last.value

\* a number has been placed after an undo
C22_Witness ==
    /\ last.op = "place"
    /\ last.ret
    /\ statistics.undos > 0
    /\ redo_stack = <<>>

\* C23: undo on an empty history and redo on an empty redo stack return
\* False and leave the board and both stacks as they were; otherwise they
\* return True and move one command from one stack to the other
C23_UndoRedoOnEmpty ==
    [][/\ (ops' = ops + 1 /\ last'.op = "undo") =>
            IF history = <<>>
            THEN /\ ~last'.ret
                 /\ board' = board
                 /\ history' = history
                 /\ redo_stack' = redo_stack
            ELSE /\ last'.ret
                 /\ history' = ButLast(history)
                 /\ redo_stack' = Append(redo_stack, history[Len(history)])
       /\ (ops' = ops + 1 /\ last'.op = "redo") =>
            IF redo_stack = <<>>
            THEN /\ ~last'.ret
                 /\ board' = board
                 /\ history' = history
                 /\ redo_stack' = redo_stack
            ELSE /\ last'.ret
                 /\ redo_stack' = ButLast(redo_stack)
                 /\ history' = Append(history, redo_stack[Len(redo_stack)])
      ]_vars

\* undo has returned False in a game in which two commands were executed
\* and undone
C23_Witness ==
    /\ last.op = "undo"
    /\ ~last.ret
    /\ history = <<>>
    /\ Len(redo_stack) = 2

\* redo has returned False
C23_WitnessRedo == last.op = "redo" /\ ~last.ret /\ statistics.moves > 0

\* undo has returned True
C23_WitnessUndone == last.op = "undo" /\ last.ret /\ Len(redo_stack) > 0

\* C24: once every command has been undone (undo would return False), every
\* cell has the value it had in the puzzle generate returned
C24_UndoAllRestoresPuzzle ==
    (state = "playing" /\ ~can_undo(history)) => SameValues(board, puzzle)

\* two commands, one of them a placement that the board had accepted, have
\* been undone, and nothing is left to undo
C24_Witness ==
    /\ state = "playing"
    /\ last.op = "undo"
    /\ last.ret
    /\ ~can_undo(history)
    /\ Len(redo_stack) = 2
    /\ \E i \in 1 .. 2 :
           /\ redo_stack[i].kind = "set"
           /\ redo_stack[i].new_value = SeededRows[redo_stack[i].row + 1]
                                                  [redo_stack[i].col + 1]

\* a placement that the board had rejected has been undone, and nothing is
\* left to undo
C24_WitnessRejected ==
    /\ state = "playing"
    /\ last.op = "undo"
    /\ last.ret
    /\ ~can_undo(history)
    /\ Len(redo_stack) > 0
    /\ LET command == redo_stack[Len(redo_stack)] IN
       /\ command.kind = "set"
       /\ command.new_value # SeededRows[command.row + 1][command.col + 1]

\* C25: a successful undo followed at once by redo leaves the value of every
\* cell, the history stack and the redo stack as they were before the undo
C25_UndoRedoIdentity ==
    snap.stage = "redone" =>
        /\ SameValues(board, snap.board)
        /\ history = snap.history
        /\ redo_stack = snap.redo_stack

\* an undo has been followed by a redo, both stacks holding a command
C25_Witness ==
    /\ snap.stage = "redone"
    /\ last.op = "redo"
    /\ Len(history) > 0
    /\ Len(redo_stack) > 0

\* a rejected placement on a cell that held a value has been undone and
\* redone
C25_WitnessRejected ==
    /\ snap.stage = "redone"
    /\ last.op = "redo"
    /\ LET command == history[Len(history)] IN
       /\ command.old_value # 0
       /\ ValueAt(board, <<command.row, command.col>>) # command.new_value

\* the commands on the two stacks
Commands ==
    {history[i] : i \in 1 .. Len(history)} \cup
    {redo_stack[i] : i \in 1 .. Len(redo_stack)}

\* C26: when _start_game puts the game into the PLAYING state both stacks
\* are empty, the statistics are zero and no cell is selected; while
\* playing, no command on the stacks was made for the board of another game
C26_NewGameStartsClean ==
    /\ [][(games' = games + 1) =>
              /\ state' = "playing"
              /\ history' = <<>>
              /\ redo_stack' = <<>>
              /\ statistics' = StatisticsManager
              /\ selected_cell' = None]_vars
    /\ [](state = "playing" => \A command \in Commands : command.game = games)

\* a second game has been started after a game in which a command was
\* executed and undone
C26_Witness ==
    /\ games = 2
    /\ last.op = "start_game"
    /\ state = "playing"
    /\ ops >= 2
    /\ history = <<>>
    /\ redo_stack = <<>>

\* C27: when a placement, typed or from a hint, leaves all 81 cells nonzero
\* and no duplicate in a row, column or box, the game is WON in that step
C27_SolvedBoardWins ==
    [][(/\ state = "playing"
        /\ statistics'.moves = statistics.moves + 1
        /\ last'.op \in {"place", "hint"}
        /\ last'.ret
        /\ Empties(board') = {}
        /\ DupFree(board')) => state' = "won"]_vars

\* C28: in the WON state, the ESC key takes the game to the MENU state
C28_EscLeavesWon ==
    [][(/\ state = "won"
        /\ last' # last
        /\ last'.op = "keydown"
        /\ last'.value = K_ESCAPE) => state' = "menu"]_vars

\* C29: in the WON state the time on the victory screen is the time from
\* the start of the game to the winning placement
C29_VictoryShowsElapsed ==
    state = "won" =>
        get_formatted_time(timer, clock) =
            FormatTime(tobs.won_at - tobs.started_at)

(***************************************************************************)
(* Timer on its own: start, stop, pause and resume called in any order      *)
(***************************************************************************)
\* how far the clock runs and how many calls are made
MaxClock == 3
MaxTimerOps == 4

TimerInit == StartWith(Board, Board, "timer", "idle")

\* a call of a Timer method: timer' is the timer it leaves, tobs' what has
\* been observed of the clock since the last start
TimerCall(op, t, seen) ==
    /\ pc = "timer"
    /\ timer' = t
    /\ tobs' = seen
    /\ last' = Did(op, 0, 0, clock, t # timer)
    /\ ops' = ops + 1
    /\ UNCHANGED <<board, pc, state, selected_cell, history, redo_stack,
                   statistics, clock, games, puzzle, snap>>
    /\ UNCHANGED solverVars
    /\ UNCHANGED generatorVars

TimerStart ==
    TimerCall("start", Timer_start(timer, clock),
              [started_at |-> clock, paused |-> 0, won_at |-> 0])

TimerStop == TimerCall("stop", Timer_stop(timer), tobs)

TimerPause == TimerCall("pause", Timer_pause(timer, clock), tobs)

TimerResume == TimerCall("resume", Timer_resume(timer, clock), tobs)

TimerNext ==
    \/ ops < MaxTimerOps /\ TimerStart
    \/ ops < MaxTimerOps /\ TimerStop
    \/ ops < MaxTimerOps /\ TimerPause
    \/ ops < MaxTimerOps /\ TimerResume
    \/ Tick(MaxClock)

TimerSpec == TimerInit /\ [][TimerNext]_vars

\* C30: for a running timer get_elapsed_time is the clock time since start
\* minus the time spent paused, it stays the same from a pause to the next
\* resume, and pause when paused or not running and resume when not paused
\* change nothing
C30_PauseResumeArithmetic ==
    /\ [](timer.is_running =>
             get_elapsed_time(timer, clock) =
                 clock - tobs.started_at - tobs.paused)
    /\ [][/\ (timer.is_running /\ timer.is_paused /\ timer'.is_paused) =>
                get_elapsed_time(timer', clock') = get_elapsed_time(timer, clock)
          /\ (ops' = ops + 1 /\ last'.op = "pause"
                /\ (timer.is_paused \/ ~timer.is_running)) => timer' = timer
          /\ (ops' = ops + 1 /\ last'.op = "resume" /\ ~timer.is_paused) =>
                timer' = timer
         ]_vars

\* the timer has been resumed after a pause during which the clock ran, and
\* the clock has run before the pause and after the resume
C30_Witness ==
    /\ pc = "timer"
    /\ timer.is_running
    /\ ~timer.is_paused
    /\ tobs.paused > 0
    /\ timer.start_time > tobs.started_at
    /\ get_elapsed_time(timer, clock) > 1

\* the clock has run while the timer was paused
C30_WitnessPaused ==
    /\ pc = "timer"
    /\ timer.is_running
    /\ timer.is_paused
    /\ tobs.paused > 0
    /\ get_elapsed_time(timer, clock) > 0

\* pause has been called on a paused timer
C30_WitnessPauseAgain ==
    /\ pc = "timer"
    /\ last.op = "pause"
    /\ ~last.ret
    /\ timer.is_paused
    /\ last.value > timer.pause_start

\* resume has been called on a running timer that was not paused
C30_WitnessResumeAgain ==
    /\ pc = "timer"
    /\ last.op = "resume"
    /\ ~last.ret
    /\ timer.is_running
    /\ ~timer.is_paused

(***************************************************************************)
(* Solver.solve called on grids that hold a duplicate                       *)
(***************************************************************************)
\* the rows of the seeded grid carved at the positions S
CarvedRows(S) ==
    [i \in 1 .. 9 |-> [j \in 1 .. 9 |->
        IF <<i - 1, j - 1>> \in S THEN 0 ELSE SeededRows[i][j]]]

\* rows with the value w[3] written over the cell (w[1], w[2])
Overwritten(rows, w) ==
    [i \in 1 .. 9 |-> [j \in 1 .. 9 |->
        IF <<i - 1, j - 1>> = <<w[1], w[2]>> THEN w[3] ELSE rows[i][j]]]

\* the cells carved, how many at a time, and the values written over a cell
\* of the seeded grid, each one a duplicate in its row
DirtyPool == {<<0, 3>>, <<0, 4>>, <<4, 3>>}
MaxDirtyBlanks == 2
DirtyWrites == {<<8, 8, 8>>, <<0, 0, 2>>, <<1, 3, 5>>}

DirtyGrids ==
    {PuzzleOf(Overwritten(CarvedRows(S), w)) :
        S \in {T \in SUBSET DirtyPool : Cardinality(T) <= MaxDirtyBlanks},
        w \in DirtyWrites}

SolverDirtySpec == SolverStart(DirtyGrids) /\ [][SolverNext]_vars

\* C31: solve does not validate what is already on the grid: on a grid with
\* no empty cell it returns true and changes nothing, duplicates or not; a
\* value present at entry is never changed; and each value it writes differs
\* from the value of every peer of the cell at the moment of the write
C31_SolveTrustsGrid ==
    /\ []((Returned /\ Empties(entry) = {}) => (sret /\ work = entry))
    /\ [](\A p \in Pos : ValueAt(entry, p) # 0 =>
                             ValueAt(work, p) = ValueAt(entry, p))
    /\ [][\A p \in Pos :
             (ValueAt(work', p) # ValueAt(work, p) /\ ValueAt(work', p) # 0) =>
                 \A q \in Peers[p] : ValueAt(work, q) # ValueAt(work', p)]_vars

\* solve has returned true on a grid with no empty cell and a duplicate
C31_Witness ==
    /\ Returned /\ sret
    /\ calls = 1
    /\ Empties(entry) = {}
    /\ ~DupFree(entry)

\* solve has filled the empty cells of a grid that held a duplicate, and
\* returned true
C31_WitnessPartial ==
    /\ Returned /\ sret
    /\ Cardinality(Empties(entry)) = 2
    /\ ~DupFree(entry)
    /\ Empties(work) = {}
    /\ ~DupFree(work)

\* solve has returned false on a grid that held a duplicate
C31_WitnessFalse ==
    /\ Returned /\ ~sret
    /\ ~DupFree(entry)

\* C33: when solve returns false, every cell has the value it had when the
\* call began: what the search had put in has been cleared again
C33_FailedSolveRestores ==
    (Returned /\ ~sret) => SameValues(work, entry)

\* solve has returned false on a grid with at least two empty cells, the
\* rules allowing a value in the first of them, which the search has put in
\* and taken out again
C33_Witness ==
    /\ Returned /\ ~sret
    /\ Cardinality(Empties(entry)) >= 2
    /\ LET first == _find_empty_cell(entry) IN
       \E num \in Digits : is_valid_move(entry, first[1], first[2], num)
    /\ \E p \in Pos : ValueAt(entry, p) # 0 /\ ~GivenAt(entry, p)

(***************************************************************************)
(* One long game: a player who selects one empty cell and then places a    *)
(* number in it and clears it, in turn                                     *)
(***************************************************************************)
\* config.MAX_HISTORY_SIZE
MAX_HISTORY_SIZE == 100

\* the cell the player works on, the number placed, and how many actions
\* the player makes
LongCells == {<<0, 0>>}
LongDigits == {1}
MaxLongOps == 101

LongNext ==
    \/ games = 0 /\ StartGame(GamePuzzle)
    \/ selected_cell = None /\ \E cell \in LongCells : ClickCell(cell)
    \/ /\ ops < MaxLongOps
       /\ selected_cell # None
       /\ ValueAt(board, selected_cell) = 0
       /\ \E number \in LongDigits : KeyNumber(number)
       /\ ops' = ops + 1
    \/ /\ ops < MaxLongOps
       /\ selected_cell # None
       /\ ValueAt(board, selected_cell) # 0
       /\ KeyDelete
       /\ ops' = ops + 1

LongHistorySpec == GameInit /\ [][LongNext]_vars

\* C32: the undo history never holds more than MAX_HISTORY_SIZE commands
C32_HistoryBounded == Len(history) <= MAX_HISTORY_SIZE

(***************************************************************************)
(* One game, with hints once the cells of GameFill are filled in           *)
(***************************************************************************)
\* how many actions are made on the board
MaxPlayOps == 3

PlayNext ==
    \/ games = 0 /\ StartGame(GamePuzzle)
    \/ FillClick
    \/ FillPlace
    \/ FillDone /\ \E cell \in GameClicks : ClickCell(cell)
    \/ FillDone /\ ops < MaxPlayOps /\ GameOp
    \/ FillDone /\ ops < MaxPlayOps /\ ClickHint /\ ops' = ops + 1
    \/ \E cell \in Pos : HintUsed(cell) /\ UNCHANGED ops
    \/ SolveEnter
    \/ SolveLoop
    \/ SolveReturn

PlaySpec == GameInit /\ [][PlayNext]_vars

\* a call of Board.reset on the board in play
BoardReset ==
    /\ Playing
    /\ board' = reset(board)
    /\ last' = Did("reset", 0, 0, 0, TRUE)
    /\ snap' = NoSnap
    /\ UNCHANGED <<pc, state, selected_cell, history, redo_stack, statistics,
                   timer, clock, games, puzzle, tobs>>
    /\ UNCHANGED solverVars
    /\ UNCHANGED generatorVars

\* a call of StatisticsManager.record_invalid_move on the statistics of the
\* game in play
RecordInvalidMove ==
    /\ Playing
    /\ statistics' = record_invalid_move(statistics)
    /\ last' = Did("record_invalid_move", 0, 0, 0, TRUE)
    /\ snap' = NoSnap
    /\ UNCHANGED <<board, pc, state, selected_cell, history, redo_stack,
                   timer, clock, games, puzzle, tobs>>
    /\ UNCHANGED solverVars
    /\ UNCHANGED generatorVars

\* one game, with the arrow keys and with calls of Board.reset and of
\* StatisticsManager.record_invalid_move, and how many actions are made
MaxResetOps == 2

GameResetNext ==
    \/ games = 0 /\ StartGame(GamePuzzle)
    \/ FillClick
    \/ FillPlace
    \/ FillDone /\ \E cell \in GameClicks : ClickCell(cell)
    \/ FillDone /\ ReachArrow
    \/ FillDone /\ ops < MaxResetOps /\ GameOp
    \/ FillDone /\ ops < MaxResetOps /\ ClickHint /\ ops' = ops + 1
    \/ FillDone /\ ops < MaxResetOps /\ BoardReset /\ ops' = ops + 1
    \/ FillDone /\ ops < MaxResetOps /\ RecordInvalidMove /\ ops' = ops + 1
    \/ \E cell \in Pos : HintUsed(cell) /\ UNCHANGED ops
    \/ SolveEnter
    \/ SolveLoop
    \/ SolveReturn

GameResetSpec == GameInit /\ [][GameResetNext]_vars

\* C34: in every state of a game the board in play is duplicate-free: no
\* row, column or box holds the same nonzero value twice
C34_LiveBoardDupFree ==
    state \in {"playing", "won"} => DupFree(board)

\* a placement the board had rejected has been undone on a cell that holds
\* a value the player has placed
C34_Witness ==
    /\ state = "playing"
    /\ last.op = "undo"
    /\ last.ret
    /\ Len(redo_stack) = 1
    /\ LET command == redo_stack[1] IN
       /\ command.kind = "set"
       /\ command.old_value # 0
       /\ ValueAt(board, <<command.row, command.col>>) = command.old_value

\* a hint has been placed after a placement of the player on a cell of
\* GameCarve
C34_WitnessHint ==
    /\ last.op = "hint"
    /\ last.ret
    /\ statistics.moves = Len(FillOrder) + 2
    /\ Len(history) = Len(FillOrder) + 2

\* C35: the state is WON only when all 81 cells of the board are nonzero and
\* no row, column or box holds a duplicate
C35_WonMeansSolved ==
    state = "won" => (Empties(board) = {} /\ DupFree(board))

\* a game has been won by a placement of the player that followed a hint
C35_Witness ==
    /\ state = "won"
    /\ last.op = "place"
    /\ statistics.hints_used = 1
    /\ Len(history) = Len(FillOrder) + 2

\* a game has been won by a hint
C35_WitnessHint == state = "won" /\ last.op = "hint"

\* C36: while playing, the hint that fills the last empty cell of the board
\* switches the state to WON, so a player who only presses Hint on a
\* solvable board reaches WON
C36_LastHintWins ==
    [][(/\ state = "playing"
        /\ statistics'.hints_used = statistics.hints_used + 1
        /\ last'.op = "hint"
        /\ last'.ret
        /\ Empties(board') = {}) => state' = "won"]_vars

\* C37: in the MENU state there is no board; in the PLAYING and WON states
\* the board is there, has the validator, and comes from the puzzle generate
\* returned for this game
C37_BoardExistsInGame ==
    /\ state = "menu" => board = None
    /\ state \in {"playing", "won"} =>
          /\ board # None
          /\ board.validator
          /\ \E p \in GamePuzzles : puzzle = set_validator(p)
          /\ last.op = "start_game" => board = puzzle

\* the game is back in the menu after a game in which a command was executed
C37_Witness ==
    /\ state = "menu"
    /\ last.op = "return_to_menu"
    /\ games > 0
    /\ Len(history) > 0
    /\ board = None

\* a second game is in play
C37_WitnessPlaying == state = "playing" /\ games = 2 /\ board # None

=============================================================================
